---- MODULE Spec2Model ----
(***************************************************************************)
(* A model of the PCC congestion controller of src/src/tcp_pcc.c.          *)
(*                                                                         *)
(* The controller (struct pcc_data with its interval ring) and the part of *)
(* the socket it reads and writes (struct sock / tcp_sock) are the state.  *)
(* Every C function is an operator from a "world" w = [pcc, sk] to the     *)
(* world it leaves behind, written in the order of the C statements.  The  *)
(* callbacks of tcp_pcc_cong_ops are the actions.                          *)
(*                                                                         *)
(* Numbers.  TLC's integers are 32 bits wide.                              *)
(*  - A u32 field holds the two's-complement integer with the same 32      *)
(*    bits, so + and - are the C operations modulo 2^32 and a wrapped      *)
(*    difference shows as a negative number; unsigned comparisons are      *)
(*    ULt / UGt, zero extension to 64 bits is ZeroExt.                     *)
(*  - s64 / u64 values are plain integers; a 64-bit product that is        *)
(*    divided at once is formed by MulDivT, which never holds the product. *)
(*    A quotient beyond IntMax saturates at IntMax; the bounds keep every  *)
(*    stored value below it.                                               *)
(***************************************************************************)
EXTENDS Integers, Sequences, FiniteSets, TLC

\* ------------------------------------------------------------ constants
PCC_INTERVALS == 4
PCC_PROBING_EPS == 5
PCC_PROBING_EPS_PART == 100
PCC_SCALE == 1000
PCC_RATE_MIN == 1024
PCC_RATE_MIN_PACKETS_PER_RTT == 2
PCC_INTERVAL_MIN_PACKETS == 50
PCC_GRAD_STEP_SIZE == 25
PCC_MAX_SWING_BUFFER == 2
PCC_LAT_INFL_FILTER == 30
PCC_MIN_RATE_DIFF_RATIO_FOR_GRAD == 20
PCC_MIN_CHANGE_BOUND == 100
PCC_CHANGE_BOUND_STEP == 70
PCC_AMP_MIN == 2
PCC_INIT_RATE_FACTOR == 512
USEC_PER_MSEC == 1000
USEC_PER_SEC == 1000000
MIN_CWND == 4
LOSS_STATE_CODE == 4
\* enum PCC_DECISION
PCC_RATE_UP == 0
PCC_RATE_DOWN == 1
PCC_RATE_STAY == 2
\* The largest integer of TLC; S64_MIN, the "undefined utility"
\* sentinel, is the least value a utility can take in the model.
IntMax == (2 ^ 30 - 1) + 2 ^ 30
S64_MIN == -IntMax

\* ----------------------------------------------------------- arithmetic
Abs(x) == IF x < 0 THEN -x ELSE x
Max(a, b) == IF a >= b THEN a ELSE b
Min(a, b) == IF a <= b THEN a ELSE b

\* C's signed division truncates toward zero.
TruncDiv(a, c) ==
  IF (a >= 0) = (c > 0) THEN Abs(a) \div Abs(c) ELSE -(Abs(a) \div Abs(c))

SatAdd(x, y) == IF x > IntMax - y THEN IntMax ELSE x + y
SatMul(x, y) ==
  IF x = 0 \/ y = 0 THEN 0
  ELSE IF x > IntMax \div y THEN IntMax ELSE x * y

\* The quotient (a * b) / c for a, b >= 0 and 0 < c, without ever holding
\* the 64-bit product; a quotient beyond IntMax saturates at IntMax.
\* For c * c within the integers: with a = qa * c + ra and b = qb * c + rb,
\* a * b = (qa * b + ra * qb) * c + ra * rb.
SmallDivisor == 46340
MulDivSmall(a, b, c) ==
  SatAdd(SatAdd(SatMul(a \div c, b), (a % c) * (b \div c)),
         ((a % c) * (b % c)) \div c)

\* For any c: long multiplication over the bits of b, most significant
\* first; qr = <<q, r>> holds (a * top bits of b) = q * c + r.
TopBit == 2 ^ 30
\* <<q, r>> for twice the product.
MulDivDouble(qr, c) ==
  IF qr[2] >= c - qr[2]
  THEN <<SatAdd(SatAdd(qr[1], qr[1]), 1), qr[2] - (c - qr[2])>>
  ELSE <<SatAdd(qr[1], qr[1]), qr[2] + qr[2]>>
\* <<q, r>> for the product plus a, when the bit of b is set.
MulDivAdd(qr, a, c, bit) ==
  IF bit = 0 THEN qr
  ELSE IF qr[2] >= c - (a % c)
       THEN <<SatAdd(SatAdd(qr[1], a \div c), 1), qr[2] - (c - (a % c))>>
       ELSE <<SatAdd(qr[1], a \div c), qr[2] + (a % c)>>

RECURSIVE MulDivLoop(_, _, _, _, _)
MulDivLoop(a, b, c, qr, m) ==
  IF m = 0 \/ qr[1] < 0 THEN qr[1]
  ELSE MulDivLoop(a, b, c,
                  MulDivAdd(MulDivDouble(qr, c), a, c, (b \div m) % 2),
                  m \div 2)

MulDivU(a, b, c) ==
  IF c <= SmallDivisor THEN MulDivSmall(a, b, c)
  ELSE IF a = 0 \/ b <= IntMax \div a THEN (a * b) \div c
  ELSE MulDivLoop(Max(a, b), Min(a, b), c, <<0, 0>>, TopBit)

\* (a * b) / c in 64-bit C arithmetic, truncated toward zero.
MulDivSign(a, b, c) == IF ((a >= 0) = (b >= 0)) = (c > 0) THEN 1 ELSE -1
MulDivT(a, b, c) == MulDivSign(a, b, c) * MulDivU(Abs(a), Abs(b), Abs(c))

\* Unsigned comparison of two u32 values.
ULt(a, b) == IF (a >= 0) = (b >= 0) THEN a < b ELSE a >= 0
UGt(a, b) == ULt(b, a)
UMax(a, b) == IF ULt(a, b) THEN b ELSE a
UMin(a, b) == IF ULt(a, b) THEN a ELSE b
\* A u32 read as a 64-bit number: the bits 2^31.. of the model's u32 values
\* are never set, and the sum below overflows TLC's integers if one is.
ZeroExt(x) == IF x >= 0 THEN x ELSE (x + IntMax) + (IntMax + 2)

\* ------------------------------------------------------------ the state
VARIABLES
  pcc,        \* struct pcc_data, with the interval ring in pcc.intervals
  sk,         \* the socket fields the controller reads and writes
  last_call,  \* the callback that ran last
  link        \* the host's path: the bottleneck's rate in bytes per second

vars == <<pcc, sk, last_call, link>>

Slots == 0 .. (PCC_INTERVALS - 1)

\* kzalloc: every field of every interval is 0.
ZeroInterval ==
  [rate |-> 0, recv_start |-> 0, recv_end |-> 0, send_start |-> 0,
   send_end |-> 0, start_rtt |-> 0, end_rtt |-> 0, packets_sent_base |-> 0,
   packets_ended |-> 0, utility |-> 0, lost |-> 0, delivered |-> 0]

\* The congestion-control private area as the host hands it to pcc_init:
\* zeroed, the interval ring not yet allocated (intervals is the empty
\* function for the NULL pointer).
ZeroPcc ==
  [intervals |-> <<>>, send_index |-> 0, recive_index |-> 0,
   rate |-> 0, last_rate |-> 0, start_mode |-> FALSE, moving |-> FALSE,
   loss_state |-> FALSE, wait |-> FALSE, last_decision |-> PCC_RATE_UP,
   lost_base |-> 0, delivered_base |-> 0, packets_counted |-> 0,
   spare |-> 0, amplifier |-> 0, swing_buffer |-> 0, change_bound |-> 0]

\* ---------------------------------------------------- getters / setters
pcc_get_rtt(s) ==
  IF s.srtt_us # 0 THEN UMax(s.srtt_us \div 8, 1) ELSE USEC_PER_MSEC

\* A variant of pcc_set_cwnd that forgets the cap of line 153.
pcc_set_cwnd_nocap(w) ==
  LET s == w.sk
      cwnd0 == (MulDivT(s.sk_pacing_rate, pcc_get_rtt(s), s.mss_cache)
                  \div USEC_PER_SEC) * 2
  IN [w EXCEPT !.sk.snd_cwnd = Max(MIN_CWND, cwnd0)]

\* cwnd = pacing_rate * rtt / mss / USEC_PER_SEC * 2, at least 4, at most
\* snd_cwnd_clamp.
pcc_set_cwnd(w) ==
  LET s == w.sk
      cwnd0 == (MulDivT(s.sk_pacing_rate, pcc_get_rtt(s), s.mss_cache)
                  \div USEC_PER_SEC) * 2
      cwnd1 == Max(MIN_CWND, cwnd0)
      cwnd2 == UMin(cwnd1, s.snd_cwnd_clamp)
  IN [w EXCEPT !.sk.snd_cwnd = cwnd2]

pcc_valid(p) == DOMAIN p.intervals # {} /\ p.intervals[0].rate # 0

\* The low 32 bits of x as the model holds a u32 (see "Numbers" above).
ToU32(x) == x

\* ------------------------------------------------------- intervals init
\* Bit k of the random byte drawn by get_random_bytes.
RandBit(rand, k) == (rand \div (2 ^ k)) % 2

pcc_setup_intervals_probing(w, rand) ==
  LET p == w.pcc
      rate_high == MulDivT(p.rate, PCC_PROBING_EPS_PART + PCC_PROBING_EPS,
                           PCC_PROBING_EPS_PART)
      rate_low == MulDivT(p.rate, PCC_PROBING_EPS_PART - PCC_PROBING_EPS,
                          PCC_PROBING_EPS_PART)
      lowFirst(i) == RandBit(rand, i \div 2) = 1
      slotRate(i) ==
        IF i % 2 = 0
        THEN (IF lowFirst(i) THEN rate_low ELSE rate_high)
        ELSE (IF lowFirst(i - 1) THEN rate_high ELSE rate_low)
      ivs == [i \in Slots |->
                [p.intervals[i] EXCEPT !.rate = slotRate(i),
                                       !.packets_sent_base = 0]]
  IN [w EXCEPT !.pcc.intervals = ivs,
               !.pcc.send_index = 0,
               !.pcc.recive_index = 0,
               !.pcc.wait = FALSE]

\* A variant of pcc_setup_intervals_moving that clears the target rate
\* with the statistics instead of setting it.
pcc_setup_intervals_moving_clear(w) ==
  [w EXCEPT !.pcc.intervals[0].packets_sent_base = 0,
            !.pcc.intervals[0].rate = 0,
            !.pcc.send_index = 0,
            !.pcc.recive_index = 0,
            !.pcc.wait = FALSE]

pcc_setup_intervals_moving(w) ==
  [w EXCEPT !.pcc.intervals[0].packets_sent_base = 0,
            !.pcc.intervals[0].rate = w.pcc.rate,
            !.pcc.send_index = 0,
            !.pcc.recive_index = 0,
            !.pcc.wait = FALSE]

\* The pacing rate start_interval programs for a target rate.
PacingFor(rate, max_pacing_rate) ==
  UMin(UMax(rate, PCC_RATE_MIN), max_pacing_rate)

\* A variant of start_interval that leaves packets_ended as the previous
\* round left it.
start_interval_keep_ended(w) ==
  LET p == w.pcc
      i == p.send_index
      w1 == IF ~p.wait
            THEN [w EXCEPT !.pcc.intervals[i] =
                    [@ EXCEPT !.lost = 0,
                              !.delivered = 0,
                              !.packets_sent_base =
                                 UMax(w.sk.data_segs_out, 1),
                              !.send_start = w.sk.tcp_mstamp]]
            ELSE w
      rate == IF ~p.wait THEN p.intervals[i].rate ELSE p.rate
  IN pcc_set_cwnd([w1 EXCEPT !.sk.sk_pacing_rate =
                     PacingFor(rate, w.sk.sk_max_pacing_rate)])

start_interval(w) ==
  LET p == w.pcc
      i == p.send_index
      w1 == IF ~p.wait
            THEN [w EXCEPT !.pcc.intervals[i] =
                    [@ EXCEPT !.packets_ended = 0,
                              !.lost = 0,
                              !.delivered = 0,
                              !.packets_sent_base =
                                 UMax(w.sk.data_segs_out, 1),
                              !.send_start = w.sk.tcp_mstamp]]
            ELSE w
      rate == IF ~p.wait THEN p.intervals[i].rate ELSE p.rate
  IN pcc_set_cwnd([w1 EXCEPT !.sk.sk_pacing_rate =
                     PacingFor(rate, w.sk.sk_max_pacing_rate)])

\* ------------------------------------------------ utility and decisions
VIVACE_LAT_COEFF == 900
VIVACE_LOSS_COEFF == 11
START_LOSS_FILTER == 100

pcc_calc_util_grad(rate_1, util_1, rate_2, util_2) ==
  LET rate_diff_ratio == MulDivT(PCC_SCALE, rate_2 - rate_1, rate_1)
  IN IF /\ rate_diff_ratio < PCC_MIN_RATE_DIFF_RATIO_FOR_GRAD
        /\ rate_diff_ratio > -PCC_MIN_RATE_DIFF_RATIO_FOR_GRAD
     THEN 0
     ELSE MulDivT(PCC_SCALE * PCC_SCALE, util_2 - util_1, rate_2 - rate_1)

\* x < bound && x > -1 * bound
Within(x, bound) == x < bound /\ x > -bound

\* Lines 279-280.
Throughput(iv, mss) ==
  IF iv.recv_end - iv.recv_start > 0
  THEN MulDivT(USEC_PER_SEC, ZeroExt(iv.delivered) * mss,
               iv.recv_end - iv.recv_start)
  ELSE 0

\* Lines 289-290.
RttDiffThresh(throughput, mss) ==
  IF throughput > 0 THEN MulDivT(2 * USEC_PER_SEC, mss, throughput) ELSE 0

\* Lines 291-292.
RawLatInfl(iv) ==
  IF iv.send_end - iv.send_start > 0
  THEN MulDivT(PCC_SCALE, iv.end_rtt - iv.start_rtt,
               iv.send_end - iv.send_start)
  ELSE 0

\* Lines 299-306: the three filters on the latency inflation.
FilterLatInfl(lat0, rtt_diff, rtt_diff_thresh, start_mode) ==
  LET lat1 == IF Within(rtt_diff, rtt_diff_thresh) THEN 0 ELSE lat0
      lat2 == IF Within(lat1, PCC_LAT_INFL_FILTER) THEN 0 ELSE lat1
  IN IF lat2 < 0 /\ start_mode THEN 0 ELSE lat2

\* Lines 309-312.
LossRatio(iv, start_mode) ==
  LET loss0 == TruncDiv(ZeroExt(iv.lost) * PCC_SCALE,
                        ZeroExt(iv.lost) + ZeroExt(iv.delivered))
  IN IF start_mode /\ loss0 < START_LOSS_FILTER THEN 0 ELSE loss0

\* Line 314.
UtilityOf(rate, lat_infl, loss_ratio) ==
  rate - MulDivT(rate,
                 VIVACE_LAT_COEFF * lat_infl + VIVACE_LOSS_COEFF * loss_ratio,
                 PCC_SCALE)

\* The utility pcc_calc_utility_vivace stores for an interval.
VivaceUtility(iv, mss, start_mode) ==
  IF iv.delivered = 0
  THEN 0
  ELSE UtilityOf(iv.rate,
                 FilterLatInfl(RawLatInfl(iv), iv.end_rtt - iv.start_rtt,
                               RttDiffThresh(Throughput(iv, mss), mss),
                               start_mode),
                 LossRatio(iv, start_mode))

\* (*pcc->util_func)(pcc, interval, sk), bound to the Vivace utility.
pcc_calc_utility_vivace(w, i) ==
  [w EXCEPT !.pcc.intervals[i].utility =
     VivaceUtility(w.pcc.intervals[i], w.sk.mss_cache, w.pcc.start_mode)]

pcc_get_decision(p, new_rate) ==
  IF p.rate = ZeroExt(new_rate) THEN PCC_RATE_STAY
  ELSE IF p.rate < ZeroExt(new_rate) THEN PCC_RATE_UP ELSE PCC_RATE_DOWN

\* A variant of pcc_decide_rate that takes the winner of the first pair.
pcc_decide_rate_first_pair(w) ==
  LET iv == w.pcc.intervals
      run_1_res == iv[0].utility > iv[1].utility
      run_2_res == iv[2].utility > iv[3].utility
      did_agree == (run_1_res = run_2_res) = (iv[0].rate = iv[2].rate)
      win == IF run_1_res THEN 0 ELSE 1
  IN IF did_agree
     THEN [w |-> [w EXCEPT !.pcc.last_rate = iv[win].rate,
                           !.pcc.intervals[0].utility = iv[win].utility],
           ret |-> ToU32(iv[win].rate)]
     ELSE [w |-> w, ret |-> ToU32(w.pcc.rate)]

\* [w, ret]: the world pcc_decide_rate leaves and the u32 it returns.
pcc_decide_rate(w) ==
  LET iv == w.pcc.intervals
      run_1_res == iv[0].utility > iv[1].utility
      run_2_res == iv[2].utility > iv[3].utility
      did_agree == (run_1_res = run_2_res) = (iv[0].rate = iv[2].rate)
      win == IF run_2_res THEN 2 ELSE 3
  IN IF did_agree
     THEN [w |-> [w EXCEPT !.pcc.last_rate = iv[win].rate,
                           !.pcc.intervals[0].utility = iv[win].utility],
           ret |-> ToU32(iv[win].rate)]
     ELSE [w |-> w, ret |-> ToU32(w.pcc.rate)]

\* Lines 405-408 of pcc_decide: the utility of each of the four intervals.
DecideUtilities(w) ==
  pcc_calc_utility_vivace(
    pcc_calc_utility_vivace(
      pcc_calc_utility_vivace(
        pcc_calc_utility_vivace(w, 0), 1), 2), 3)

\* Lines 412-425 of pcc_decide, d being what pcc_decide_rate left and
\* returned: the intervals are laid out before pcc->rate is assigned.
DecideOn(d, rand) ==
  LET new_rate == ZeroExt(d.ret)
      w2 == IF new_rate # d.w.pcc.rate
            THEN pcc_setup_intervals_moving([d.w EXCEPT !.pcc.moving = TRUE])
            ELSE pcc_setup_intervals_probing(d.w, rand)
  IN start_interval([w2 EXCEPT !.pcc.rate = new_rate])

pcc_decide(w, rand) == DecideOn(pcc_decide_rate(DecideUtilities(w)), rand)

\* A variant of pcc_update_step_params that keeps the amplifier when the
\* direction changes.
pcc_update_step_params_keep_amp(p, step) ==
  IF (step > 0) = (p.rate > p.last_rate)
  THEN IF p.swing_buffer > 0
       THEN [p EXCEPT !.swing_buffer = @ - 1]
       ELSE [p EXCEPT !.amplifier = @ + 1]
  ELSE [p EXCEPT !.swing_buffer = Min(@ + 1, PCC_MAX_SWING_BUFFER),
                 !.change_bound = PCC_MIN_CHANGE_BOUND]

pcc_update_step_params(p, step) ==
  IF (step > 0) = (p.rate > p.last_rate)
  THEN IF p.swing_buffer > 0
       THEN [p EXCEPT !.swing_buffer = @ - 1]
       ELSE [p EXCEPT !.amplifier = @ + 1]
  ELSE [p EXCEPT !.swing_buffer = Min(@ + 1, PCC_MAX_SWING_BUFFER),
                 !.amplifier = PCC_AMP_MIN,
                 !.change_bound = PCC_MIN_CHANGE_BOUND]

\* [p, ret]: the controller pcc_apply_change_bound leaves and the step it
\* returns.
pcc_apply_change_bound(p, step) ==
  IF p.rate = 0
  THEN [p |-> p, ret |-> step]
  ELSE IF MulDivT(PCC_SCALE, Abs(step), p.rate) > p.change_bound
       THEN [p |-> [p EXCEPT !.change_bound = @ + PCC_CHANGE_BOUND_STEP],
             ret |-> (IF step > 0 THEN 1 ELSE -1)
                       * MulDivT(p.rate, p.change_bound, PCC_SCALE)]
       ELSE [p |-> [p EXCEPT !.change_bound = PCC_MIN_CHANGE_BOUND],
             ret |-> step]

\* Lines 486-488, p1 being the controller pcc_update_step_params left:
\* step *= amplifier; step /= PCC_SCALE; pcc_apply_change_bound.
MovingBoundedStep(p1, grad) ==
  pcc_apply_change_bound(
    p1, MulDivT(grad, PCC_GRAD_STEP_SIZE * p1.amplifier, PCC_SCALE))

\* Lines 493-504, b being what pcc_apply_change_bound left and returned.
MovingReturn(w1, b) ==
  LET min_step == (MulDivT(b.p.rate, PCC_MIN_RATE_DIFF_RATIO_FOR_GRAD,
                           PCC_SCALE) * 11) \div 10
      step == IF b.ret >= 0 /\ b.ret < min_step THEN min_step
              ELSE IF b.ret < 0 /\ b.ret > -min_step THEN -min_step
              ELSE b.ret
  IN [w |-> [w1 EXCEPT !.pcc = b.p], ret |-> ToU32(b.p.rate + step)]

\* Lines 484-504, grad being the gradient of line 482.  Of the step
\* grad * PCC_GRAD_STEP_SIZE pcc_update_step_params reads only the sign.
MovingOnGrad(w1, grad) ==
  MovingReturn(w1,
    MovingBoundedStep(
      pcc_update_step_params(w1.pcc, MulDivT(grad, PCC_GRAD_STEP_SIZE, 1)),
      grad))

\* Line 482, w1 being the world with the utility of interval 0 computed.
MovingGrad(w1, prev_utility) ==
  pcc_calc_util_grad(w1.pcc.rate, w1.pcc.intervals[0].utility,
                     w1.pcc.last_rate, prev_utility)

\* Lines 477-504, w1 being the world with the utility of interval 0
\* computed.
MovingOnUtility(w1, prev_utility) ==
  MovingOnGrad(w1, MovingGrad(w1, prev_utility))

\* [w, ret]: the world pcc_decide_rate_moving leaves (utility of interval 0,
\* step parameters) and the u32 it returns.
pcc_decide_rate_moving(w) ==
  MovingOnUtility(pcc_calc_utility_vivace(w, 0), w.pcc.intervals[0].utility)

\* (USEC_PER_SEC * PCC_RATE_MIN_PACKETS_PER_RTT * mss) / rtt
PacketMinRate(s) ==
  MulDivT(USEC_PER_SEC * PCC_RATE_MIN_PACKETS_PER_RTT, s.mss_cache,
          pcc_get_rtt(s))

\* Lines 510-537, m being what pcc_decide_rate_moving left and returned.
MovingOn(m, rand) ==
  LET new_rate0 == ZeroExt(m.ret)
      decision == pcc_get_decision(m.w.pcc, ToU32(new_rate0))
      last_decision == m.w.pcc.last_decision
      w1 == [m.w EXCEPT !.pcc.last_rate = m.w.pcc.rate,
                        !.pcc.rate = Max(new_rate0, PacketMinRate(m.w.sk))]
  IN start_interval(
       IF decision # last_decision
       THEN pcc_setup_intervals_probing([w1 EXCEPT !.pcc.moving = FALSE],
                                        rand)
       ELSE pcc_setup_intervals_moving(w1))

pcc_decide_moving(w, rand) == MovingOn(pcc_decide_rate_moving(w), rand)

\* A variant of pcc_decide_slow_start that leaves slow start at the rate
\* it reached, without the swap of lines 577-579.
pcc_decide_slow_start_no_revert(w, rand) ==
  LET prev_utility == w.pcc.intervals[0].utility
      w1 == pcc_calc_utility_vivace(w, 0)
      p == w1.pcc
  IN start_interval(
       IF p.intervals[0].utility > prev_utility
       THEN [w1 EXCEPT !.pcc.last_rate = p.rate,
                       !.pcc.rate = p.rate + TruncDiv(p.rate, 2),
                       !.pcc.intervals[0].rate =
                          p.rate + TruncDiv(p.rate, 2),
                       !.pcc.send_index = 0,
                       !.pcc.recive_index = 0,
                       !.pcc.wait = FALSE]
       ELSE pcc_setup_intervals_probing(
              [w1 EXCEPT !.pcc.start_mode = FALSE], rand))

\* A variant of pcc_decide_slow_start that grows by extra_rate, the bytes
\* the interval delivered capped at rate / 2 (lines 566-568).
pcc_decide_slow_start_extra(w, rand) ==
  LET prev_utility == w.pcc.intervals[0].utility
      w1 == pcc_calc_utility_vivace(w, 0)
      p == w1.pcc
      extra_rate == UMin(p.intervals[0].delivered * w1.sk.mss_cache,
                         TruncDiv(p.rate, 2))
  IN start_interval(
       IF p.intervals[0].utility > prev_utility
       THEN [w1 EXCEPT !.pcc.last_rate = p.rate,
                       !.pcc.rate = p.rate + extra_rate,
                       !.pcc.intervals[0].rate = p.rate + extra_rate,
                       !.pcc.send_index = 0,
                       !.pcc.recive_index = 0,
                       !.pcc.wait = FALSE]
       ELSE pcc_setup_intervals_probing(
              [w1 EXCEPT !.pcc.last_rate = p.rate,
                         !.pcc.rate = p.last_rate,
                         !.pcc.start_mode = FALSE], rand))

\* Lines 564-596, w1 being the world with the utility of interval 0
\* computed (line 574 stores that utility again).
SlowStartOn(w1, prev_utility, rand) ==
  LET p == w1.pcc
  IN start_interval(
       IF p.intervals[0].utility > prev_utility
       THEN [w1 EXCEPT !.pcc.last_rate = p.rate,
                       !.pcc.rate = p.rate + TruncDiv(p.rate, 2),
                       !.pcc.intervals[0].rate =
                          p.rate + TruncDiv(p.rate, 2),
                       !.pcc.send_index = 0,
                       !.pcc.recive_index = 0,
                       !.pcc.wait = FALSE]
       ELSE pcc_setup_intervals_probing(
              [w1 EXCEPT !.pcc.last_rate = p.rate,
                         !.pcc.rate = p.last_rate,
                         !.pcc.start_mode = FALSE], rand))

\* The adjust_utility values of the source are computed and never read.
pcc_decide_slow_start(w, rand) ==
  SlowStartOn(pcc_calc_utility_vivace(w, 0), w.pcc.intervals[0].utility,
              rand)

\* ------------------------------------------------ intervals and samples
IGNORE_ENDED == 10
IGNORE_FOLD == 10

\* A variant of send_interval_ended without the minimum of
\* PCC_INTERVAL_MIN_PACKETS segments (lines 613-614).
send_interval_ended_no_minimum(w, i) ==
  IF UGt(w.pcc.packets_counted, w.pcc.intervals[i].packets_sent_base)
  THEN [w |-> [w EXCEPT !.pcc.intervals[i].packets_ended =
                           w.sk.data_segs_out],
        ret |-> TRUE]
  ELSE [w |-> w, ret |-> FALSE]

\* A variant of send_interval_ended that stamps packets_ended with the
\* number of segments sent into the interval.
send_interval_ended_count(w, i) ==
  LET iv == w.pcc.intervals[i]
      packets_sent == w.sk.data_segs_out - iv.packets_sent_base
  IN IF packets_sent < PCC_INTERVAL_MIN_PACKETS
     THEN [w |-> w, ret |-> FALSE]
     ELSE IF UGt(w.pcc.packets_counted, iv.packets_sent_base)
          THEN [w |-> [w EXCEPT !.pcc.intervals[i].packets_ended =
                                   packets_sent],
                ret |-> TRUE]
          ELSE [w |-> w, ret |-> FALSE]

\* [w, ret]: send_interval_ended stamps packets_ended when it returns true.
send_interval_ended(w, i) ==
  LET iv == w.pcc.intervals[i]
      packets_sent == w.sk.data_segs_out - iv.packets_sent_base
  IN IF packets_sent < PCC_INTERVAL_MIN_PACKETS
     THEN [w |-> w, ret |-> FALSE]
     ELSE IF UGt(w.pcc.packets_counted, iv.packets_sent_base)
          THEN [w |-> [w EXCEPT !.pcc.intervals[i].packets_ended =
                                   w.sk.data_segs_out],
                ret |-> TRUE]
          ELSE [w |-> w, ret |-> FALSE]

recive_interval_ended(iv, p) ==
  /\ iv.packets_ended # 0
  /\ ULt(iv.packets_ended - IGNORE_ENDED, p.packets_counted)

\* A variant of start_next_send_interval that never sets wait.
start_next_send_interval_nowait(w) ==
  start_interval([w EXCEPT !.pcc.send_index = w.pcc.send_index + 1])

start_next_send_interval(w) ==
  LET si == w.pcc.send_index + 1
      w1 == [w EXCEPT !.pcc.send_index = si]
      w2 == IF si = PCC_INTERVALS \/ w.pcc.start_mode \/ w.pcc.moving
            THEN [w1 EXCEPT !.pcc.wait = TRUE]
            ELSE w1
  IN start_interval(w2)

\* A variant of pcc_update_interval that adds the host's counters, not
\* what they gained since the sample before.
pcc_update_interval_totals(w, i) ==
  LET iv == w.pcc.intervals[i]
      s == w.sk
      iv1 == [iv EXCEPT !.recv_end = s.tcp_mstamp,
                        !.end_rtt = s.srtt_us \div 8]
      iv2 == IF iv.lost + iv.delivered = 0
             THEN [iv1 EXCEPT !.recv_start = s.tcp_mstamp,
                              !.start_rtt = s.srtt_us \div 8]
             ELSE iv1
  IN [w EXCEPT !.pcc.intervals[i] =
        [iv2 EXCEPT !.lost = @ + s.lost,
                    !.delivered = @ + s.delivered]]

pcc_update_interval(w, i) ==
  LET iv == w.pcc.intervals[i]
      s == w.sk
      iv1 == [iv EXCEPT !.recv_end = s.tcp_mstamp,
                        !.end_rtt = s.srtt_us \div 8]
      iv2 == IF iv.lost + iv.delivered = 0
             THEN [iv1 EXCEPT !.recv_start = s.tcp_mstamp,
                              !.start_rtt = s.srtt_us \div 8]
             ELSE iv1
  IN [w EXCEPT !.pcc.intervals[i] =
        [iv2 EXCEPT !.lost = @ + (s.lost - w.pcc.lost_base),
                    !.delivered = @ + (s.delivered - w.pcc.delivered_base)]]

\* The label "end" of pcc_process.
ProcessEnd(w) ==
  [w EXCEPT !.pcc.lost_base = w.sk.lost,
            !.pcc.delivered_base = w.sk.delivered]

\* Lines 686-692: the send side of pcc_process.
ProcessSend(w) ==
  IF ~w.pcc.wait
  THEN LET i == w.pcc.send_index
           e == send_interval_ended(w, i)
       IN IF e.ret
          THEN start_next_send_interval(
                 [e.w EXCEPT !.pcc.intervals[i].send_end = w.sk.tcp_mstamp])
          ELSE e.w
  ELSE w

\* Lines 705-713: the receive interval has ended.
ProcessDecide(w, rand) ==
  LET ri == w.pcc.recive_index + 1
      w1 == [w EXCEPT !.pcc.recive_index = ri]
  IN IF w.pcc.start_mode THEN pcc_decide_slow_start(w1, rand)
     ELSE IF w.pcc.moving THEN pcc_decide_moving(w1, rand)
     ELSE IF ri = PCC_INTERVALS THEN pcc_decide(w1, rand)
     ELSE w1

\* Lines 694-704: packets_counted is recomputed and, for an interval that
\* has begun and was counted past its first IGNORE_FOLD segments before this
\* sample, the sample's deltas are folded into it.
ProcessFold(w) ==
  LET index == w.pcc.recive_index
      before == w.pcc.packets_counted
      w1 == [w EXCEPT !.pcc.packets_counted =
                         w.sk.delivered + w.sk.lost - w.pcc.spare]
  IN IF /\ w1.pcc.intervals[index].packets_sent_base # 0
        /\ UGt(before, IGNORE_FOLD
                         + w1.pcc.intervals[index].packets_sent_base)
     THEN pcc_update_interval(w1, index)
     ELSE w1

\* Line 705 is reached and its test passes.
ReceiveEnded(w) ==
  /\ w.pcc.intervals[w.pcc.recive_index].packets_sent_base # 0
  /\ recive_interval_ended(w.pcc.intervals[w.pcc.recive_index], w.pcc)

\* Lines 705-713, f being the world ProcessFold left.
ProcessRecvOn(f, rand) ==
  IF ReceiveEnded(f) THEN ProcessDecide(f, rand) ELSE f

\* Lines 694-713: the receive side of pcc_process.
ProcessRecv(w, rand) == ProcessRecvOn(ProcessFold(w), rand)

\* A variant of pcc_process without the loss_state test of line 684.
pcc_process_no_loss_gate(w, rand) ==
  IF ~pcc_valid(w.pcc)
  THEN w
  ELSE ProcessEnd(ProcessRecv(ProcessSend(pcc_set_cwnd(w)), rand))

\* rand is the byte get_random_bytes hands to a probing layout made during
\* this call.
pcc_process(w, rand) ==
  IF ~pcc_valid(w.pcc)
  THEN w
  ELSE LET w1 == pcc_set_cwnd(w)
       IN IF w1.pcc.loss_state
          THEN ProcessEnd(w1)
          ELSE ProcessEnd(ProcessRecv(ProcessSend(w1), rand))

\* alloc_ok: whether kzalloc returned memory.
pcc_init(w, alloc_ok, rand) ==
  IF ~alloc_ok
  THEN w
  ELSE LET ivs == [i \in Slots |->
                     IF i = 0 THEN [ZeroInterval EXCEPT !.utility = S64_MIN]
                     ELSE ZeroInterval]
           w1 == [w EXCEPT !.pcc.intervals = ivs,
                           !.pcc.amplifier = PCC_AMP_MIN,
                           !.pcc.swing_buffer = 0,
                           !.pcc.change_bound = PCC_MIN_CHANGE_BOUND,
                           !.pcc.rate = PCC_RATE_MIN * PCC_INIT_RATE_FACTOR,
                           !.pcc.last_rate =
                              PCC_RATE_MIN * PCC_INIT_RATE_FACTOR,
                           !.pcc.start_mode = TRUE,
                           !.pcc.moving = FALSE]
       IN start_interval(pcc_setup_intervals_probing(w1, rand))

\* A variant of SpareOnExit that forgets the segments in flight.
SpareOnExit_no_in_flight(s, old_spare) ==
  LET spare0 == s.delivered + s.lost
      spare1 == spare0 - s.data_segs_out
      spare2 == spare1 - old_spare
  IN old_spare + spare2

\* The spare pcc_set_state leaves on exit from loss recovery.
SpareOnExit(s, old_spare) ==
  LET spare0 == s.delivered + s.lost + s.packets_in_flight
      spare1 == spare0 - s.data_segs_out
      spare2 == spare1 - old_spare
  IN old_spare + spare2

\* A variant of lines 789-806 that leaves the intervals as they are when
\* loss recovery ends (without lines 798-799).
SetStateValid_no_restart(w, new_state, rand) ==
  IF w.pcc.loss_state /\ new_state # LOSS_STATE_CODE
  THEN [w EXCEPT !.pcc.spare = SpareOnExit(w.sk, w.pcc.spare),
                 !.pcc.loss_state = FALSE]
  ELSE IF ~w.pcc.loss_state /\ new_state = LOSS_STATE_CODE
       THEN start_interval([w EXCEPT !.pcc.loss_state = TRUE,
                                     !.pcc.wait = TRUE])
       ELSE w

\* Lines 789-806: pcc_set_state on a valid controller.
SetStateValid(w, new_state, rand) ==
  IF w.pcc.loss_state /\ new_state # LOSS_STATE_CODE
  THEN start_interval(
         pcc_setup_intervals_probing(
           [w EXCEPT !.pcc.spare = SpareOnExit(w.sk, w.pcc.spare),
                     !.pcc.loss_state = FALSE], rand))
  ELSE IF ~w.pcc.loss_state /\ new_state = LOSS_STATE_CODE
       THEN start_interval([w EXCEPT !.pcc.loss_state = TRUE,
                                     !.pcc.wait = TRUE])
       ELSE w

\* A variant of pcc_set_state without the pcc_valid test of line 786.
pcc_set_state_unchecked(w, new_state, rand) ==
  SetStateValid(w, new_state, rand)

pcc_set_state(w, new_state, rand) ==
  IF ~pcc_valid(w.pcc) THEN w ELSE SetStateValid(w, new_state, rand)

\* ------------------------------------------------------------- the host
TCP_INIT_CWND == 10

\* The socket when the connection picks the controller.
Sock0(mss, clamp, maxpr, srtt) ==
  [data_segs_out |-> 0, delivered |-> 0, lost |-> 0,
   packets_in_flight |-> 0, tcp_mstamp |-> 0, srtt_us |-> srtt,
   mss_cache |-> mss, snd_cwnd_clamp |-> clamp,
   sk_max_pacing_rate |-> maxpr, sk_pacing_rate |-> maxpr,
   snd_cwnd |-> TCP_INIT_CWND]

\* The counters the host has moved when the next rate sample arrives:
\* sent more segments, ack = <<delivered, lost>> more accounted for, dt
\* microseconds later, with smoothed RTT srtt (in the host's 1/8 us).
HostStep(s, sent, ack, dt, srtt) ==
  [s EXCEPT !.data_segs_out = @ + sent,
            !.delivered = @ + ack[1],
            !.lost = @ + ack[2],
            !.tcp_mstamp = @ + dt,
            !.srtt_us = srtt]

\* The host accounts only for segments it has sent.
HostStepOk(s) == s.delivered + s.lost <= s.data_segs_out

\* ------------------------------------------------------------ callbacks
\* .init = pcc_init, on a path whose bottleneck carries link_rate.
Construct(mss, clamp, maxpr, srtt, alloc_ok, rand, link_rate) ==
  LET w == pcc_init([pcc |-> ZeroPcc, sk |-> Sock0(mss, clamp, maxpr, srtt)],
                    alloc_ok, rand)
  IN /\ pcc = w.pcc
     /\ sk = w.sk
     /\ last_call = "init"
     /\ link = [rate |-> link_rate, changed |-> FALSE]

\* .cong_control = pcc_process_sample: what the callback does to the
\* socket and to the controller.
SampleCall(sent, ack, dt, srtt, rand) ==
  LET s1 == HostStep(sk, sent, ack, dt, srtt)
      w == pcc_process([pcc |-> pcc, sk |-> s1], rand)
  IN /\ HostStepOk(s1)
     /\ pcc' = w.pcc
     /\ sk' = w.sk
     /\ last_call' = "sample"

\* .cong_control = pcc_process_sample, on a path that stays as it is.
Sample(sent, ack, dt, srtt, rand) ==
  /\ SampleCall(sent, ack, dt, srtt, rand)
  /\ UNCHANGED link

\* .set_state = pcc_set_state; packets_in_flight keeps what
\* tcp_packets_in_flight returned when the callback last read it.
StateChangeCall(new_state, in_flight, rand) ==
  LET reads == pcc_valid(pcc) /\ pcc.loss_state
               /\ new_state # LOSS_STATE_CODE
      s1 == IF reads THEN [sk EXCEPT !.packets_in_flight = in_flight] ELSE sk
      w == pcc_set_state([pcc |-> pcc, sk |-> s1], new_state, rand)
  IN /\ pcc' = w.pcc
     /\ sk' = w.sk
     /\ last_call' = "set_state"

\* .set_state = pcc_set_state, on a path that stays as it is.
StateChange(new_state, in_flight, rand) ==
  /\ StateChangeCall(new_state, in_flight, rand)
  /\ UNCHANGED link

\* ------------------------------------------- the general specification
\* The host sends a burst and reports what became of one, TimeStep apart,
\* until its clock reads MaxSamples * TimeStep; it enters loss recovery
\* while it has sent at most MaxLossSegs segments.
TimeStep == 200000
LinkRate == 1100000
MaxSamples == 3
MaxLossSegs == 60
Burst == 60
BurstLost == 6

\* What the host can report between two callbacks: a burst sent, and none
\* of a burst, all of it, or all but BurstLost of it accounted for.  The socket's limits are
\* the kernel's defaults: no clamp in reach, no pacing limit (~0U).
NoPacingLimit == 0 - 1
DefaultClamp == 1000000
DefaultMss == 1460
FirstSrttSet == {0, 80000}
SrttSet == {80000, 160000}
RandSet == 0 .. 3
AckSet == {<<0, 0>>, <<Burst, 0>>, <<Burst - BurstLost, BurstLost>>}
InFlightSet == {0, Burst + Burst \div 2}
NewStates == {0, LOSS_STATE_CODE}

Init ==
  \E srtt \in FirstSrttSet, alloc_ok \in BOOLEAN, rand \in RandSet :
    Construct(DefaultMss, DefaultClamp, NoPacingLimit, srtt, alloc_ok, rand,
              LinkRate)

OnSample ==
  \E ack \in AckSet, srtt \in SrttSet, rand \in RandSet :
    /\ sk.tcp_mstamp < MaxSamples * TimeStep
    /\ Sample(Burst, ack, TimeStep, srtt, rand)

\* The host calls again with nothing changed.
OnSampleAgain ==
  \E rand \in RandSet : Sample(0, <<0, 0>>, 0, sk.srtt_us, rand)

OnStateChange ==
  \E new_state \in NewStates, in_flight \in InFlightSet, rand \in RandSet :
    /\ new_state = LOSS_STATE_CODE => sk.data_segs_out <= MaxLossSegs
    /\ StateChange(new_state, in_flight, rand)

Next == OnSample \/ OnSampleAgain \/ OnStateChange

Spec == Init /\ [][Next]_vars

\* ---------------------------------------------- the host's socket limits
\* The same host with the limits an application or a route can set on the
\* socket: SO_MAX_PACING_RATE (0 included) and a small window clamp.
LimitSamples == 2
SmallClamp == 2
PacingLimit == 600000
ClampSet == {SmallClamp, DefaultClamp}
MaxPacingSet == {0, PacingLimit, NoPacingLimit}

InitLimits ==
  \E clamp \in ClampSet, maxpr \in MaxPacingSet, srtt \in FirstSrttSet,
     rand \in RandSet :
    Construct(DefaultMss, clamp, maxpr, srtt, TRUE, rand, LinkRate)

OnSampleLimits ==
  \E srtt \in SrttSet, rand \in RandSet :
    /\ sk.tcp_mstamp < LimitSamples * TimeStep
    /\ Sample(Burst, <<Burst, 0>>, TimeStep, srtt, rand)

NextLimits == OnSampleLimits \/ OnSampleAgain \/ OnStateChange

SpecLimits == InitLimits /\ [][NextLimits]_vars

\* --------------------------------------------------- a paced connection
\* The host sends what the programmed pacing rate allows in a TimeStep over a
\* link of LinkRate bytes per second; every segment is accounted for one
\* sample after it was sent, delivered up to the link's share and lost
\* beyond it, and the smoothed RTT doubles while the link is overrun.
RunSamples == 40
RunMssSet == {536, DefaultMss}
BaseSrtt == 80000

PacketsIn(rate, mss) == MulDivT(rate, TimeStep, mss) \div USEC_PER_SEC

OnRunSample ==
  LET due == sk.data_segs_out - sk.delivered - sk.lost
      share == PacketsIn(link.rate, sk.mss_cache)
      got == Min(due, share)
      srtt == IF due > share THEN 2 * BaseSrtt ELSE BaseSrtt
  IN \E rand \in RandSet :
       /\ sk.tcp_mstamp < RunSamples * TimeStep
       /\ Sample(PacketsIn(sk.sk_pacing_rate, sk.mss_cache),
                 <<got, due - got>>, TimeStep, srtt, rand)

\* Loss recovery in a paced connection: what is in flight is what is sent
\* and not accounted for.
OnRunStateChange ==
  \E new_state \in NewStates, rand \in RandSet :
    /\ new_state = LOSS_STATE_CODE => sk.data_segs_out <= MaxLossSegs
    /\ StateChange(new_state, sk.data_segs_out - sk.delivered - sk.lost,
                   rand)

InitRun ==
  \E mss \in RunMssSet, rand \in RandSet :
    Construct(mss, DefaultClamp, NoPacingLimit, 0, TRUE, rand, LinkRate)

NextRun == OnRunSample \/ OnRunStateChange

SpecRun == InitRun /\ [][NextRun]_vars

\* ------------------------------------------------- a path that changes
\* The paced connection over a bottleneck of one of several rates, which
\* changes to another of them at most once, at any time.
MoveSamples == 60
LinkSet == {300000, 600000, 900000, 1500000, 3000000, 3920000}

OnMoveSample ==
  LET due == sk.data_segs_out - sk.delivered - sk.lost
      share == PacketsIn(link.rate, sk.mss_cache)
      got == Min(due, share)
      srtt == IF due > share THEN 2 * BaseSrtt ELSE BaseSrtt
  IN /\ sk.tcp_mstamp < MoveSamples * TimeStep
     /\ Sample(PacketsIn(sk.sk_pacing_rate, sk.mss_cache),
               <<got, due - got>>, TimeStep, srtt, 0)

OnLinkChange ==
  /\ ~link.changed
  /\ \E l \in LinkSet \ {link.rate} :
       link' = [rate |-> l, changed |-> TRUE]
  /\ UNCHANGED <<pcc, sk, last_call>>

InitMove ==
  \E l \in LinkSet :
    Construct(DefaultMss, DefaultClamp, NoPacingLimit, 0, TRUE, 0, l)

NextMove == OnMoveSample \/ OnLinkChange

SpecMove == InitMove /\ [][NextMove]_vars

\* ------------------------------------------- a host that samples often
\* The paced host over a link of LinkSet, calling every AckStep: fewer than
\* PCC_INTERVAL_MIN_PACKETS segments leave between two samples, and every
\* segment is accounted for one sample after it was sent.
AckStep == 25000
AckSamples == 150

PacketsInStep(rate, mss) == MulDivT(rate, AckStep, mss) \div USEC_PER_SEC

OnAckSample ==
  LET due == sk.data_segs_out - sk.delivered - sk.lost
      share == PacketsInStep(link.rate, sk.mss_cache)
      got == Min(due, share)
      srtt == IF due > share THEN 2 * BaseSrtt ELSE BaseSrtt
  IN /\ sk.tcp_mstamp < AckSamples * AckStep
     /\ Sample(PacketsInStep(sk.sk_pacing_rate, sk.mss_cache),
               <<got, due - got>>, AckStep, srtt, 0)

InitAck ==
  \E l \in LinkSet :
    Construct(DefaultMss, DefaultClamp, NoPacingLimit, 0, TRUE, 0, l)

SpecAck == InitAck /\ [][OnAckSample]_vars

\* ------------------------------------------ a host that keeps running
\* The paced host over a link of LiveLink whose path loses segments until
\* it heals. link.calls counts the rate samples the host has delivered,
\* link.recovering says that the host is in loss recovery, link.changed
\* that the path has healed: the host enters no loss recovery afterwards.
\* The host delivers LiveSamples rate samples, and every episode of loss
\* recovery ends before the next rate sample.
LiveSamples == 24
LiveSettle == 14
LiveLink == 600000

\* The host delivers one more rate sample.
HostCalls ==
  /\ link.calls < LiveSamples
  /\ ~link.recovering
  /\ link' = [link EXCEPT !.calls = @ + 1]

\* The host enters loss recovery.
HostEntersLoss ==
  /\ ~link.changed
  /\ ~link.recovering
  /\ link' = [link EXCEPT !.recovering = TRUE]

\* The host leaves loss recovery.
HostRecovers ==
  /\ link.recovering
  /\ link' = [link EXCEPT !.recovering = FALSE]

OnLiveSample ==
  LET due == sk.data_segs_out - sk.delivered - sk.lost
      share == PacketsIn(link.rate, sk.mss_cache)
      got == Min(due, share)
      srtt == IF due > share THEN 2 * BaseSrtt ELSE BaseSrtt
  IN /\ HostCalls
     /\ SampleCall(PacketsIn(sk.sk_pacing_rate, sk.mss_cache),
                   <<got, due - got>>, TimeStep, srtt, 0)

OnLossEnter ==
  /\ HostEntersLoss
  /\ StateChangeCall(LOSS_STATE_CODE,
                     sk.data_segs_out - sk.delivered - sk.lost, 0)

OnLossExit ==
  /\ HostRecovers
  /\ StateChangeCall(0, sk.data_segs_out - sk.delivered - sk.lost, 0)

OnPathHeals ==
  /\ ~link.changed
  /\ link' = [link EXCEPT !.changed = TRUE]
  /\ UNCHANGED <<pcc, sk, last_call>>

InitLive ==
  LET w == pcc_init([pcc |-> ZeroPcc,
                     sk |-> Sock0(DefaultMss, DefaultClamp, NoPacingLimit, 0)],
                    TRUE, 0)
  IN /\ pcc = w.pcc
     /\ sk = w.sk
     /\ last_call = "init"
     /\ link = [rate |-> LiveLink, changed |-> FALSE, calls |-> 0,
                recovering |-> FALSE]

NextLive == OnLiveSample \/ OnLossEnter \/ OnLossExit \/ OnPathHeals

\* The host keeps delivering rate samples while it has some to deliver,
\* and every episode of loss recovery ends. Both are steps of the host:
\* only OnLiveSample is a HostCalls step, only OnLossExit a HostRecovers
\* step.
SpecLive ==
  /\ InitLive
  /\ [][NextLive]_vars
  /\ WF_link(HostCalls)
  /\ WF_link(HostRecovers)

\* ------------------------------------------------------- a failing path
\* A long path (smoothed RTT of one second, small segments) that loses
\* every second segment: each sample reports DeclineBurst more segments
\* sent, half of them delivered and half lost.
DeclineBurst == 60
DeclineMss == 536
DeclineSrtt == 8000000
DeclineSamples == 2400

InitDecline ==
  Construct(DeclineMss, DefaultClamp, NoPacingLimit, DeclineSrtt, TRUE, 0,
            LinkRate)

OnDeclineSample ==
  /\ sk.tcp_mstamp < DeclineSamples * TimeStep
  /\ Sample(DeclineBurst,
            <<DeclineBurst \div 2, DeclineBurst - DeclineBurst \div 2>>,
            TimeStep, DeclineSrtt, 0)

SpecDecline == InitDecline /\ [][OnDeclineSample]_vars

\* ------------------------------------------------- the utility function
\* pcc_calc_utility_vivace as a function of a completed interval: the four
\* intervals of a controller hold the same target rate, send window,
\* receive window and RTTs, no loss, and each a number of delivered
\* segments of its own; the utility loop of pcc_decide is applied to them.
UtilRateSet == {500000, 1000000}
UtilDeliveredSet == {0, 10, 100}
UtilEndRttSet == {5000, 10000, 20000}
UtilStartRtt == 10000

MeasuredInterval(rate, delivered, end_rtt) ==
  [ZeroInterval EXCEPT !.rate = rate,
                       !.packets_sent_base = 1,
                       !.packets_ended = 1 + Burst,
                       !.send_start = 0,
                       !.send_end = TimeStep,
                       !.recv_start = TimeStep,
                       !.recv_end = 2 * TimeStep,
                       !.start_rtt = UtilStartRtt,
                       !.end_rtt = end_rtt,
                       !.lost = 0,
                       !.delivered = delivered]

InitUtility ==
  \E rate \in UtilRateSet, d \in [Slots -> UtilDeliveredSet],
     end_rtt \in UtilEndRttSet, start_mode \in BOOLEAN :
    /\ pcc = [ZeroPcc EXCEPT
                !.intervals = [i \in Slots |->
                                 MeasuredInterval(rate, d[i], end_rtt)],
                !.rate = rate,
                !.last_rate = rate,
                !.start_mode = start_mode,
                !.amplifier = PCC_AMP_MIN,
                !.change_bound = PCC_MIN_CHANGE_BOUND]
    /\ sk = Sock0(DefaultMss, DefaultClamp, NoPacingLimit, 8 * UtilStartRtt)
    /\ last_call = "init"
    /\ link = [rate |-> LinkRate, changed |-> FALSE]

\* for (i = 0; i < PCC_INTERVALS; i++) (*pcc->util_func)(pcc, interval, sk)
OnCalcUtility ==
  /\ last_call = "init"
  /\ pcc' = DecideUtilities([pcc |-> pcc, sk |-> sk]).pcc
  /\ last_call' = "utility"
  /\ UNCHANGED <<sk, link>>

SpecUtility == InitUtility /\ [][OnCalcUtility]_vars

\* ----------------------------------------------------------- properties
\* kzalloc returned memory in pcc_init.
Initialised == DOMAIN pcc.intervals # {}
\* Neither slow start nor moving: the four-interval probing round.
Probing == ~pcc.start_mode /\ ~pcc.moving
\* The step is a cong_control callback (the path changes between callbacks).
SampleStep == last_call' = "sample" /\ link' = link
\* The step is the set_state callback that ends loss recovery.
LossExitStep == pcc_valid(pcc) /\ pcc.loss_state /\ ~pcc'.loss_state
\* The world a cong_control callback of this step is called on: the
\* controller as it was and the socket with the counters the host moved.
SampleIn ==
  [pcc |-> pcc,
   sk |-> [sk' EXCEPT !.sk_pacing_rate = sk.sk_pacing_rate,
                      !.snd_cwnd = sk.snd_cwnd]]
\* The step is a sample that gets past lines 680-685 of pcc_process.
SampleRuns == SampleStep /\ pcc_valid(pcc) /\ ~pcc.loss_state
\* The world when that sample reaches line 705.
AtFold ==
  CHOOSE f \in {ProcessFold(s) :
                 s \in {ProcessSend(c) : c \in {pcc_set_cwnd(SampleIn)}}} :
    TRUE
\* The sample of this step ends a receive interval and runs the decision
\* of slow start, of moving, or the probing vote.
Decides == SampleRuns /\ \E f \in {AtFold} : ReceiveEnded(f)
SlowStartDecides == Decides /\ pcc.start_mode
MovingDecides == Decides /\ ~pcc.start_mode /\ pcc.moving
VoteDecides ==
  /\ Decides /\ ~pcc.start_mode /\ ~pcc.moving
  /\ AtFold.pcc.recive_index + 1 = PCC_INTERVALS

\* C1, as stated: after every sample on an initialised controller the rate
\* pcc->rate is at least PCC_RATE_MIN (1024).  Only the pacing rate is
\* clamped (lines 227-229); on the failing path the probing round's low
\* rate, 95% of a rate at the floor of line 513, becomes pcc->rate.
C1_RateAtLeastMin ==
  (Initialised /\ last_call = "sample") => pcc.rate >= PCC_RATE_MIN

\* C2, as stated: after every sample both indices are in 0 .. 3, the receive
\* index is at most the send index while probing, and both are 0 in slow
\* start and in moving.
C2_IndicesAsStated ==
  (Initialised /\ last_call = "sample") =>
    /\ pcc.send_index \in 0 .. (PCC_INTERVALS - 1)
    /\ pcc.recive_index \in 0 .. (PCC_INTERVALS - 1)
    /\ Probing => pcc.recive_index <= pcc.send_index
    /\ ~Probing => (pcc.send_index = 0 /\ pcc.recive_index = 0)

\* C2, amended: the receive index is in 0 .. 3; the send index is in 0 .. 4
\* and is 4 (every probing interval sent) only while the controller waits;
\* the receive index is at most the send index while probing; in slow start
\* and in moving the receive index is 0 and the send index is 0, or 1 while
\* the controller waits for the one interval's acks.
C2_IndexBounds ==
  Initialised =>
    /\ pcc.recive_index \in 0 .. (PCC_INTERVALS - 1)
    /\ pcc.send_index \in 0 .. PCC_INTERVALS
    /\ pcc.send_index = PCC_INTERVALS => pcc.wait
    /\ Probing => pcc.recive_index <= pcc.send_index
    /\ ~Probing => /\ pcc.recive_index = 0
                   /\ pcc.send_index \in {0, 1}
                   /\ pcc.send_index = 1 => pcc.wait

\* A sample has ended the sending of the fourth probing interval.
C2_AllProbesSent ==
  /\ Initialised /\ Probing /\ last_call = "sample"
  /\ pcc.send_index = PCC_INTERVALS /\ pcc.wait
  /\ pcc.recive_index > 0

C4_PacingAsStated ==
  pcc_valid(pcc) =>
    /\ ~ULt(sk.sk_pacing_rate, PCC_RATE_MIN)
    /\ sk.sk_max_pacing_rate # 0 =>
         ~UGt(sk.sk_pacing_rate, sk.sk_max_pacing_rate)

\* The fields C5 speaks of are the same in the two states of a step.
IntervalsFrozen ==
  /\ pcc'.send_index = pcc.send_index
  /\ pcc'.recive_index = pcc.recive_index
  /\ \A i \in Slots :
       /\ pcc'.intervals[i].lost = pcc.intervals[i].lost
       /\ pcc'.intervals[i].delivered = pcc.intervals[i].delivered
       /\ pcc'.intervals[i].packets_sent_base
            = pcc.intervals[i].packets_sent_base
       /\ pcc'.intervals[i].packets_ended = pcc.intervals[i].packets_ended

\* C5: a callback that leaves the controller in loss recovery (the
\* set_state(4) that enters it and every callback until the one that leaves
\* it) changes no interval's lost, delivered, packets_sent_base or
\* packets_ended, nor send_index, nor recive_index.
C5_LossFreezesIntervals ==
  [][(pcc_valid(pcc) /\ pcc'.loss_state) => IntervalsFrozen]_vars

\* In loss recovery, a sample has reported newly lost and delivered
\* segments while an interval was open for them.
C5_SampleDuringLoss ==
  /\ pcc_valid(pcc) /\ pcc.loss_state /\ last_call = "sample"
  /\ sk.lost > 0 /\ pcc.lost_base = sk.lost
  /\ pcc.intervals[pcc.recive_index].packets_sent_base # 0
  /\ UGt(pcc.packets_counted,
         IGNORE_FOLD + pcc.intervals[pcc.recive_index].packets_sent_base)

\* C6, as stated: the set_state that ends loss recovery leaves the
\* controller probing - neither slow start nor moving - with the two
\* indices 0, wait false and interval 0 restarted.
C6_LossExitProbes ==
  [][LossExitStep =>
       /\ ~pcc'.start_mode /\ ~pcc'.moving
       /\ pcc'.send_index = 0 /\ pcc'.recive_index = 0 /\ ~pcc'.wait
       /\ pcc'.intervals[0].packets_sent_base = UMax(sk'.data_segs_out, 1)
       /\ pcc'.intervals[0].packets_ended = 0]_vars

\* The spare the claim C7 names, from the counters the exit read.
SpareRead(s) ==
  s.delivered + s.lost + s.packets_in_flight - s.data_segs_out

\* C7: the set_state that ends loss recovery leaves spare = delivered + lost
\* + in_flight - data_segs_out, as it read them; and when in_flight was at
\* most data_segs_out, the next sample computes packets_counted = delivered
\* + lost - spare without wrapping below 0.
C7_SpareAbsorbsDelta ==
  [][/\ LossExitStep => pcc'.spare = SpareRead(sk')
     /\ ( /\ pcc_valid(pcc) /\ ~pcc.loss_state
          /\ last_call = "set_state" /\ pcc.spare = SpareRead(sk)
          /\ sk.packets_in_flight <= sk.data_segs_out
          /\ SampleStep )
        => /\ pcc'.packets_counted
                = sk'.delivered + sk'.lost - pcc.spare
           /\ pcc'.packets_counted >= 0]_vars

\* The first sample after an exit that read segments in flight.
C7_SampleAfterExit ==
  /\ pcc_valid(pcc) /\ ~pcc.loss_state /\ last_call = "sample"
  /\ pcc.spare > 0 /\ sk.packets_in_flight <= sk.data_segs_out
  /\ pcc.packets_counted = sk.delivered + sk.lost - pcc.spare
  /\ sk.delivered + sk.lost - sk.data_segs_out = 0

\* The host's inputs to a sample are those of the sample before.
SameInputs ==
  /\ sk'.data_segs_out = sk.data_segs_out
  /\ sk'.delivered = sk.delivered
  /\ sk'.lost = sk.lost
  /\ sk'.tcp_mstamp = sk.tcp_mstamp
  /\ sk'.srtt_us = sk.srtt_us
  /\ sk'.mss_cache = sk.mss_cache
  /\ sk'.snd_cwnd_clamp = sk.snd_cwnd_clamp
  /\ sk'.sk_max_pacing_rate = sk.sk_max_pacing_rate

\* C8, as stated: a sample that repeats the inputs of the sample before it
\* leaves the rate, the window and the interval state as that sample left
\* them.
C8_ReplayIdempotent ==
  [][(pcc_valid(pcc) /\ last_call = "sample" /\ SampleStep /\ SameInputs)
       => /\ pcc'.rate = pcc.rate
          /\ sk'.snd_cwnd = sk.snd_cwnd
          /\ pcc'.intervals = pcc.intervals
          /\ pcc'.send_index = pcc.send_index
          /\ pcc'.recive_index = pcc.recive_index
          /\ pcc'.wait = pcc.wait]_vars

C10_AllocFailureNoOp ==
  [][~Initialised =>
       /\ ~pcc_valid(pcc) /\ ~pcc_valid(pcc')
       /\ pcc' = pcc
       /\ sk'.sk_pacing_rate = sk.sk_pacing_rate
       /\ sk'.snd_cwnd = sk.snd_cwnd]_vars

\* After a failed allocation, samples and a state change have been made.
C10_CallbacksAfterFailure ==
  /\ ~Initialised /\ last_call = "set_state"
  /\ sk.data_segs_out > 0 /\ sk.lost > 0
\* C11: in every state of an initialised controller, every interval has
\* packets_ended = 0 or packets_ended >= packets_sent_base (as u32).
C11_EndedNotBelowBase ==
  Initialised =>
    \A i \in Slots :
      \/ pcc.intervals[i].packets_ended = 0
      \/ ~ULt(pcc.intervals[i].packets_ended,
              pcc.intervals[i].packets_sent_base)

\* In a probing round, a sample has ended the sending of the second
\* interval, which began after segments had been sent.
C11_SecondProbeEnded ==
  /\ Initialised /\ Probing /\ last_call = "sample"
  /\ pcc.send_index >= 2
  /\ pcc.intervals[1].packets_sent_base > PCC_INTERVAL_MIN_PACKETS
  /\ pcc.intervals[1].packets_ended
       >= pcc.intervals[1].packets_sent_base + PCC_INTERVAL_MIN_PACKETS
\* The gradient the moving decision of this step computes (line 482).
StepGrad ==
  MovingGrad(pcc_calc_utility_vivace(AtFold, 0),
             AtFold.pcc.intervals[0].utility)
\* The moving decision of this step prefers the direction opposite to the
\* last rate change.
ReversingStep ==
  /\ MovingDecides
  /\ \/ StepGrad < 0 /\ pcc.rate > pcc.last_rate
     \/ StepGrad > 0 /\ pcc.rate < pcc.last_rate
\* The step of a reversing decision, amplified by PCC_AMP_MIN, exceeds the
\* reset bound of PCC_MIN_CHANGE_BOUND thousandths of the rate.
ReversingStepHitsBound ==
  MulDivT(PCC_SCALE,
          Abs(MulDivT(StepGrad, PCC_GRAD_STEP_SIZE * PCC_AMP_MIN, PCC_SCALE)),
          pcc.rate) > PCC_MIN_CHANGE_BOUND

C13_UtilityMonotone ==
  last_call = "utility" =>
    \A i, j \in Slots :
      Throughput(pcc.intervals[i], sk.mss_cache)
        <= Throughput(pcc.intervals[j], sk.mss_cache)
      => pcc.intervals[i].utility <= pcc.intervals[j].utility
\* C14, as stated: a decision that lays out a moving interval (a probing
\* vote that agreed on a new rate, a moving step that keeps moving) leaves
\* interval 0 with the controller's rate as its target rate.  pcc_decide
\* lays the interval out (line 416) before it assigns the new rate (line
\* 423), so after a vote interval 0 holds the rate the vote left behind.
C14_MovingIntervalAtRate ==
  [][((VoteDecides \/ MovingDecides) /\ pcc'.moving)
       => pcc'.intervals[0].rate = pcc'.rate]_vars
\* What pcc_decide_rate_moving leaves and returns in the moving decision
\* of this step, and the direction line 511 reads from it.
StepMoving == pcc_decide_rate_moving(AtFold)
StepDecision == pcc_get_decision(StepMoving.w.pcc, StepMoving.ret)

\* C15, as stated: a moving decision records its direction as
\* last_decision, and stays in moving exactly when that direction is the
\* one the decision before it recorded.  No line of the source assigns
\* last_decision: it keeps the 0 (PCC_RATE_UP) of the zeroed private area.
C15_DirectionRecorded ==
  [][MovingDecides =>
       /\ pcc'.last_decision = StepDecision
       /\ pcc'.moving = (StepDecision = pcc.last_decision)]_vars
\* The probe rates pcc_setup_intervals_probing lays around a rate.
ProbeHigh(rate) ==
  MulDivT(rate, PCC_PROBING_EPS_PART + PCC_PROBING_EPS, PCC_PROBING_EPS_PART)
ProbeLow(rate) ==
  MulDivT(rate, PCC_PROBING_EPS_PART - PCC_PROBING_EPS, PCC_PROBING_EPS_PART)
\* The four intervals with the utilities the vote of this step computes.
VoteIntervals == DecideUtilities(AtFold).pcc.intervals
\* The two pairs of the vote prefer the same probe rate.
VoteAgrees ==
  ((VoteIntervals[0].utility > VoteIntervals[1].utility)
     = (VoteIntervals[2].utility > VoteIntervals[3].utility))
    = (VoteIntervals[0].rate = VoteIntervals[2].rate)
\* The interval of the second pair with the higher utility.
VoteWinner ==
  IF VoteIntervals[2].utility > VoteIntervals[3].utility
  THEN VoteIntervals[2] ELSE VoteIntervals[3]

SendEnds ==
  /\ ~pcc.wait /\ ~pcc.loss_state
  /\ sk'.data_segs_out - pcc.intervals[pcc.send_index].packets_sent_base
       >= PCC_INTERVAL_MIN_PACKETS
  /\ UGt(pcc.packets_counted,
         pcc.intervals[pcc.send_index].packets_sent_base)
\* What C17 says a sample leaves of the send side.
SendSideAsStated ==
  IF SendEnds
  THEN /\ pcc'.intervals[pcc.send_index].packets_ended = sk'.data_segs_out
       /\ pcc'.intervals[pcc.send_index].send_end = sk'.tcp_mstamp
       /\ pcc'.send_index = pcc.send_index + 1
       /\ pcc'.wait = (\/ pcc.send_index + 1 = PCC_INTERVALS
                       \/ pcc.start_mode \/ pcc.moving)
       /\ ~pcc'.wait =>
            /\ pcc'.intervals[pcc'.send_index].packets_ended = 0
            /\ pcc'.intervals[pcc'.send_index].lost = 0
            /\ pcc'.intervals[pcc'.send_index].delivered = 0
            /\ pcc'.intervals[pcc'.send_index].packets_sent_base
                 = UMax(sk'.data_segs_out, 1)
            /\ pcc'.intervals[pcc'.send_index].send_start = sk'.tcp_mstamp
  ELSE /\ pcc'.send_index # pcc.send_index + 1
       /\ pcc.send_index \in Slots =>
            \/ pcc'.intervals[pcc.send_index].packets_ended
                 = pcc.intervals[pcc.send_index].packets_ended
            \/ pcc'.intervals[pcc.send_index].packets_ended = 0

FoldsInto(i) ==
  /\ SampleRuns
  /\ i = pcc.recive_index
  /\ pcc.intervals[i].packets_sent_base # 0
  /\ UGt(pcc.packets_counted, IGNORE_FOLD + pcc.intervals[i].packets_sent_base)

\* C18: a step increases an interval's lost or delivered only if it is a
\* sample outside loss recovery, the interval is the one at recive_index,
\* has begun (packets_sent_base # 0) and packets_counted, as the sample
\* found it, is above packets_sent_base + 10; the counters then gain
\* host.lost - lost_base and host.delivered - delivered_base, and they gain
\* exactly that in every such sample that runs no decision; every sample
\* leaves lost_base and delivered_base at the host's counters.
C18_FoldOnlyAtReceiveIndex ==
  [][/\ pcc_valid(pcc) =>
          \A i \in Slots :
            /\ ( \/ pcc'.intervals[i].lost > pcc.intervals[i].lost
                 \/ pcc'.intervals[i].delivered > pcc.intervals[i].delivered
                 \/ (FoldsInto(i) /\ ~Decides) )
               => /\ FoldsInto(i)
                  /\ pcc'.intervals[i].lost
                       = pcc.intervals[i].lost + (sk'.lost - pcc.lost_base)
                  /\ pcc'.intervals[i].delivered
                       = pcc.intervals[i].delivered
                           + (sk'.delivered - pcc.delivered_base)
     /\ (SampleStep /\ pcc_valid(pcc)) =>
          /\ pcc'.lost_base = sk'.lost
          /\ pcc'.delivered_base = sk'.delivered]_vars

\* A sample has folded lost and delivered segments into an interval that
\* earlier samples, reporting segments too, were not folded into.
C18_FoldedAfterSkipping ==
  /\ pcc_valid(pcc) /\ ~pcc.loss_state /\ last_call = "sample"
  /\ pcc.intervals[pcc.recive_index].lost > 0
  /\ pcc.intervals[pcc.recive_index].delivered > 0
  /\ pcc.intervals[pcc.recive_index].lost < sk.lost
  /\ pcc.lost_base = sk.lost /\ pcc.delivered_base = sk.delivered
\* The utility the slow-start decision of this step computes for interval
\* 0 is not above the one the interval before left there.
SlowStartStalls ==
  /\ SlowStartDecides
  /\ pcc_calc_utility_vivace(AtFold, 0).pcc.intervals[0].utility
       <= pcc.intervals[0].utility

StepTaken == ZeroExt(StepMoving.ret) - pcc.rate
\* The change_bound pcc_apply_change_bound compares the step with: the one
\* pcc_update_step_params left (line 485).
StepBound == pcc_update_step_params(pcc, StepGrad).change_bound
\* The smallest step of lines 493-495.
StepMin ==
  (MulDivT(pcc.rate, PCC_MIN_RATE_DIFF_RATIO_FOR_GRAD, PCC_SCALE) * 11)
    \div 10

\* C20: the step of a moving decision at a rate above 0 is at least
\* 1.1 * rate * 20 / PCC_SCALE and at most rate * change_bound / PCC_SCALE
\* in magnitude, change_bound being the bound the step is compared with,
\* and the rate it gives is not negative.
C20_StepWithinBounds ==
  [][(MovingDecides /\ pcc.rate > 0) =>
       /\ Abs(StepTaken) >= StepMin
       /\ Abs(StepTaken) <= MulDivT(pcc.rate, StepBound, PCC_SCALE)
       /\ pcc.rate + StepTaken >= 0]_vars
\* C21: every interval of an initialised controller has recv_end at or
\* after recv_start and send_end at or after send_start, the intervals
\* started again in a later round included.
C21_TimestampsOrdered ==
  Initialised =>
    \A i \in Slots :
      /\ pcc.intervals[i].recv_end >= pcc.intervals[i].recv_start
      /\ pcc.intervals[i].send_end >= pcc.intervals[i].send_start
\* C22: a controller whose allocation succeeded is valid in every state:
\* interval 0's target rate is never 0, whatever samples and state
\* changes the host has delivered.
C22_StaysValid == Initialised => pcc_valid(pcc)

\* A valid controller that has left slow start and probing and is sending
\* a moving interval.
C22_ValidWhileMoving ==
  /\ pcc_valid(pcc) /\ pcc.moving /\ last_call = "sample"
  /\ pcc.intervals[0].packets_sent_base > 0
  /\ pcc.rate # PCC_RATE_MIN * PCC_INIT_RATE_FACTOR
\* Both indices are inside the ring, send_index is one past it only while
\* wait is set, and recive_index is not ahead of send_index.
IndexesInside ==
  Initialised =>
    /\ pcc.recive_index \in Slots
    /\ pcc.send_index \in 0 .. PCC_INTERVALS
    /\ (pcc.send_index = PCC_INTERVALS => pcc.wait)
    /\ pcc.recive_index <= pcc.send_index
\* While wait stays set and send_index stays where it is, the interval at
\* send_index is left as it was.
WaitingLeavesSendSlot ==
  (pcc_valid(pcc) /\ pcc.wait /\ pcc'.wait
   /\ pcc'.send_index = pcc.send_index /\ pcc.send_index \in Slots)
    => pcc'.intervals[pcc.send_index] = pcc.intervals[pcc.send_index]
\* The sample of this step folds into interval i (line 702 passes after
\* the send side of the sample has run).
FoldsAfterSend(i) ==
  /\ SampleRuns
  /\ i = pcc.recive_index
  /\ \E s \in {ProcessSend(c) : c \in {pcc_set_cwnd(SampleIn)}} :
       /\ s.pcc.intervals[i].packets_sent_base # 0
       /\ UGt(s.pcc.packets_counted,
              IGNORE_FOLD + s.pcc.intervals[i].packets_sent_base)
\* Every interval the decision of this step reads has ended sending.
DecidesOnEnded ==
  \A i \in Slots :
    (i = pcc.recive_index \/ (VoteDecides /\ i < pcc.recive_index))
      => AtFold.pcc.intervals[i].packets_ended # 0

\* C23, as stated: the indices stay inside the ring, the interval at
\* send_index is untouched while wait is set, and a sample is folded into,
\* and a decision made on, only an interval that has ended sending.
C23_EndedBeforeFold ==
  /\ []IndexesInside
  /\ [][/\ WaitingLeavesSendSlot
        /\ \A i \in Slots :
             FoldsAfterSend(i) => AtFold.pcc.intervals[i].packets_ended # 0
        /\ Decides => DecidesOnEnded]_vars

\* C23, amended: the indices stay inside the ring, the interval at
\* send_index is untouched while wait is set, a sample is folded only into
\* an interval that has started sending (it may still be sending), and a
\* decision is made only on intervals that have ended sending.
C23_StartedBeforeFold ==
  /\ []IndexesInside
  /\ [][/\ WaitingLeavesSendSlot
        /\ \A i \in Slots :
             /\ FoldsAfterSend(i)
                  => AtFold.pcc.intervals[i].packets_sent_base # 0
             /\ ( /\ Initialised
                  /\ \/ pcc'.intervals[i].lost > pcc.intervals[i].lost
                     \/ pcc'.intervals[i].delivered
                          > pcc.intervals[i].delivered )
                  => /\ FoldsAfterSend(i)
                     /\ i <= AtFold.pcc.send_index
        /\ Decides => DecidesOnEnded]_vars
\* A sample has been folded into the interval that is still being sent.
C23_FoldedWhileSending ==
  /\ pcc_valid(pcc) /\ ~pcc.wait /\ last_call = "sample"
  /\ pcc.recive_index = pcc.send_index
  /\ pcc.intervals[pcc.send_index].packets_sent_base # 0
  /\ pcc.intervals[pcc.send_index].packets_ended = 0
  /\ pcc.intervals[pcc.send_index].delivered > 0

\* ------------------------------------------------------------- progress
\* The host has LiveSettle rate samples left to deliver.
InTime == link.calls <= LiveSamples - LiveSettle
\* Interval i is being sent.
Sending(i) ==
  /\ pcc_valid(pcc) /\ ~pcc.loss_state /\ ~pcc.wait
  /\ pcc.send_index = i
  /\ pcc.intervals[i].packets_sent_base # 0
\* Interval i has ended sending (line 617).
SendEnded(i) == pcc.intervals[i].packets_ended # 0
\* A decision ran in the last rate sample: it laid out the next intervals
\* and started the first of them at the time of the sample.
Decided ==
  /\ last_call = "sample"
  /\ pcc_valid(pcc) /\ ~pcc.loss_state /\ ~pcc.wait
  /\ pcc.send_index = 0
  /\ pcc.intervals[0].send_start = sk.tcp_mstamp
\* Interval i has ended receiving: recive_index has passed it, or the
\* decision it was the last interval of has run.
IntervalReceived(i) == (pcc_valid(pcc) /\ pcc.recive_index > i) \/ Decided

\* C24, as stated: while the host keeps delivering rate samples and every
\* loss recovery ends, every interval that is being sent ends sending and
\* then ends receiving, a decision runs, and wait does not stay set.
C24_NeverStalls ==
  /\ \A i \in Slots :
       /\ (Sending(i) /\ InTime) ~> SendEnded(i)
       /\ (pcc_valid(pcc) /\ ~pcc.loss_state /\ SendEnded(i) /\ InTime)
            ~> IntervalReceived(i)
  /\ (pcc_valid(pcc) /\ InTime) ~> Decided
  /\ (pcc_valid(pcc) /\ pcc.wait /\ InTime) ~> ~pcc.wait

\* C24, amended: while the host keeps delivering rate samples, every loss
\* recovery ends and, from some time on, the host enters no loss recovery,
\* every interval that is being sent after the last loss recovery ends
\* sending and then ends receiving, a decision runs, and wait does not
\* stay set.
C24_DecidesOncePathHeals ==
  /\ \A i \in Slots :
       /\ (Sending(i) /\ InTime /\ link.changed) ~> SendEnded(i)
       /\ ( pcc_valid(pcc) /\ ~pcc.loss_state /\ SendEnded(i) /\ InTime
            /\ link.changed ) ~> IntervalReceived(i)
  /\ (pcc_valid(pcc) /\ InTime /\ link.changed) ~> Decided
  /\ (pcc_valid(pcc) /\ pcc.wait /\ InTime) ~> ~pcc.wait
\* After the path has healed the probing vote has run and the controller
\* moves.
C24_VotedAfterHeal ==
  /\ link.changed /\ ~link.recovering
  /\ Decided /\ pcc.moving
====
